---------------------------- MODULE Spec2Model ----------------------------
(***************************************************************************)
(* A model of the mumble-rs client (src/src/lib.rs): Client::new (connect, *)
(* authenticate, version exchange, bulk sync, ready callback), Client::run *)
(* (the keepalive loop `ping` and the receive loop `handle`, joined),      *)
(* Client::disconnect and SenderExt::send_message.                         *)
(*                                                                         *)
(* The inbound stream of the connection is chosen in Init (`pending`);     *)
(* `received` is the part of it the program has taken from the receiver.   *)
(* Option<T> is modelled as a sequence of length 0 (None) or 1 (Some).     *)
(***************************************************************************)
EXTENDS Naturals, Sequences, FiniteSets

\* ------------------------------------------------------------------ bounds
\* longest bulk-sync burst the server sends in the handshake streams
MaxBurst == 3
\* longest steady-state traffic the server sends in the run streams
MaxRunMsgs == 2
\* number of steady-state frame parts the wire history records
MaxWire == 3

\* ------------------------------------------------------------ inbound items
\* One item of the receiver stream: a decoded ControlPacket<Clientbound>, or
\* the Err the codec yields for a failed read (type "ReadError").
Item(t, n, c, s, a) == [type |-> t, name |-> n, channel_id |-> c, session |-> s, actor |-> a]

VersionMsg == Item("Version", "", 0, 0, 0)
SyncMsg == Item("ServerSync", "", 0, 0, 0)
OtherMsg == Item("Other", "", 0, 0, 0)
ReadError == Item("ReadError", "", 0, 0, 0)
ChannelMsg(c, n) == Item("ChannelState", n, c, 0, 0)
UserMsg(n, c, s, a) == Item("UserState", n, c, s, a)

\* the name the client authenticates with, and another user's name
Username == "Alice"
ChanIds == {1, 2}

ChannelMsgs == {ChannelMsg(1, "Root"), ChannelMsg(1, "Lobby"), ChannelMsg(2, "Lobby")}
UserMsgs ==
    {UserMsg("Alice", c, 9, a) : c \in ChanIds, a \in {0, 7}}
        \cup {UserMsg("Bob", c, 7, 0) : c \in ChanIds}

FirstItems == {VersionMsg, OtherMsg, SyncMsg, ChannelMsg(1, "Root"), ReadError}
BurstItems == ChannelMsgs \cup UserMsgs \cup {SyncMsg, OtherMsg, ReadError}
RunItems == {OtherMsg, SyncMsg, ReadError}

SeqsUpTo(S, n) == UNION {[1..k -> S] : k \in 0..n}

\* a burst as a server sends it: a channel, a message of another kind, the users
GoodBurst ==
    <<ChannelMsg(1, "Root"), OtherMsg, UserMsg("Bob", 1, 7, 0), UserMsg("Alice", 1, 9, 0),
      SyncMsg>>

\* the stream ends at once, or its first item varies and a good burst follows
VersionStreams == {<<>>} \cup {<<f>> \o GoodBurst : f \in FirstItems}
\* a version record, then every burst of at most MaxBurst items, ended by a
\* server-sync or by the end of the stream
BurstStreams ==
    {<<VersionMsg>> \o b \o t : b \in SeqsUpTo(BurstItems, MaxBurst), t \in {<<>>, <<SyncMsg>>}}
\* a good handshake, then every steady-state traffic of at most MaxRunMsgs items
RunStreams == {<<VersionMsg>> \o GoodBurst \o r : r \in SeqsUpTo(RunItems, MaxRunMsgs)}

Streams == VersionStreams \cup BurstStreams \cup RunStreams

\* ------------------------------------------------------------------- state
VARIABLES
    pending,        \* items the receiver will still yield; empty: the stream has ended
    received,       \* items taken from the receiver so far (history)
    new_pc,         \* position in Client::new
    new_result,     \* what Client::new returned: "none" while it runs
    channel_info,   \* HashMap<u32, Channel> of Client::new
    server_info,    \* Option<msgs::Version>
    actor_id,       \* Option<u32>
    session_id,     \* Option<u32>
    hs_len,         \* Option: number of items Client::new had taken when its bulk loop ended
    info,           \* Option<ClientInfo>: the snapshot once assembled
    client,         \* the Client value: "none", "alive", "disconnecting", "gone"
    run_pc,         \* Client::run: "idle", "running", "returned", "panicked"
    run_result,     \* what run returned
    ping_pc,        \* Client::ping
    ping_result,
    handle_pc,      \* Client::handle
    handle_result,
    packet,         \* Option: the packet the receive loop holds
    lock,           \* holders of the Mutex<Sender>
    acquired,       \* number of acquisitions of the Mutex so far (while the wire history records)
    ticket,         \* ticket[w]: the acquisition under which writer w holds the Mutex
    cb,             \* the Handler method in progress
    wire,           \* frames written to the sink, each in two parts
    dispatched,     \* packets handed to Handler::handle so far (history)
    disconnect_result, \* what Client::disconnect returned
    lookup,         \* Option: the last call of get_channel_by_name, its argument and result
    calls           \* per Handler method: invocations and returns so far

vars == <<pending, received, new_pc, new_result, channel_info, server_info, actor_id,
          session_id, hs_len, info, client, run_pc, run_result, ping_pc, ping_result,
          handle_pc, handle_result, packet, lock, acquired, ticket, cb, wire,
          dispatched, disconnect_result, lookup, calls>>

hsVars == <<new_pc, new_result, channel_info, server_info, actor_id, session_id, hs_len, info>>
runVars == <<run_pc, run_result, ping_pc, ping_result, handle_pc, handle_result, packet>>
endVars == <<client, disconnect_result>>
gateVars == <<lock, acquired, ticket>>
streamVars == <<pending, received>>

None == <<>>
Some(x) == <<x>>

Writers == {"ping", "handle", "disconnect"}
\* a Handler method in progress; it sends at most one text message per invocation,
\* as ready of examples/test_bot.rs does
\* (`own`: the client_info it passes to send_message is the snapshot it was given)
NoCallback == [name |-> "none", pc |-> "body", sent |-> FALSE, channel |-> 0, own |-> TRUE]
Callback(name) == [name |-> name, pc |-> "body", sent |-> FALSE, channel |-> 0, own |-> TRUE]
NoCalls == [ready |-> 0, ready_ok |-> 0, ready_err |-> 0, handle |-> 0, handle_ret |-> 0, finish |-> 0]

Init ==
    /\ pending \in Streams
    /\ received = <<>>
    /\ new_pc = "connect"
    /\ new_result = "none"
    /\ channel_info = <<>>
    /\ server_info = None
    /\ actor_id = None
    /\ session_id = None
    /\ hs_len = None
    /\ info = None
    /\ client = "none"
    /\ run_pc = "idle"
    /\ run_result = "none"
    /\ ping_pc = "off"
    /\ ping_result = "none"
    /\ handle_pc = "off"
    /\ handle_result = "none"
    /\ packet = None
    /\ lock = {}
    /\ acquired = 0
    /\ ticket = [w \in Writers |-> 0]
    /\ cb = NoCallback
    /\ wire = <<>>
    /\ dispatched = <<>>
    /\ disconnect_result = "none"
    /\ lookup = None
    /\ calls = NoCalls


\* -------------------------------------------------------------------- wire
\* One part of a frame written to the sink.  `ticket` is the gate acquisition under
\* which it was written (0: written by Client::new, which owns the sink alone).
Frame(by, tk, kind, a, s, c, part) ==
    [by |-> by, ticket |-> tk, kind |-> kind, actor |-> a, session |-> s,
     channel_id |-> c, part |-> part]

SteadyFrames(w) == Cardinality({i \in 1..Len(w) : w[i].ticket > 0})

\* the history keeps every handshake frame and the first MaxWire steady-state ones
Record(w, f) == IF f.ticket = 0 \/ SteadyFrames(w) < MaxWire THEN Append(w, f) ELSE w

WriteHead(w, by, tk, kind, a, s, c) == Record(w, Frame(by, tk, kind, a, s, c, 1))
WriteTail(w, by, tk, kind, a, s, c) == Record(w, Frame(by, tk, kind, a, s, c, 2))
WriteWhole(w, by, kind) ==
    WriteTail(WriteHead(w, by, 0, kind, 0, 0, 0), by, 0, kind, 0, 0, 0)

\* ------------------------------------------------------------- Client::new
Panics == {"panic_read_error", "panic_invalid_channel", "panic_no_own_user"}

\* TcpStream::connect, the TLS connect and the split of the framed stream
Connect ==
    /\ UNCHANGED lookup
    /\ new_pc = "connect"
    /\ \E r \in {"ok", "Err_Network", "Err_Tls"} :
         IF r = "ok"
         THEN new_pc' = "authenticate" /\ UNCHANGED new_result
         ELSE new_pc' = "done" /\ new_result' = r
    /\ UNCHANGED <<channel_info, server_info, actor_id, session_id, hs_len, info>>
    /\ UNCHANGED <<streamVars, endVars, runVars, gateVars, cb, wire, dispatched, calls>>

\* sender.send(msg.into()).await.map_err(Error::Network)? of the Authenticate message
Authenticate ==
    /\ UNCHANGED lookup
    /\ new_pc = "authenticate"
    /\ \E ok \in BOOLEAN :
         IF ok
         THEN /\ wire' = WriteWhole(wire, "new", "Authenticate")
              /\ new_pc' = "version_recv"
              /\ UNCHANGED new_result
         ELSE /\ new_pc' = "done"
              /\ new_result' = "Err_Network"
              /\ UNCHANGED wire
    /\ UNCHANGED <<channel_info, server_info, actor_id, session_id, hs_len, info>>
    /\ UNCHANGED <<streamVars, endVars, runVars, gateVars, cb, dispatched, calls>>

VersionInfo_Any(item, old) == Some(item)

\* the item a version exchange stores: Some(info) for a Version packet
VersionInfo(item, old) == IF item.type = "Version" THEN Some(item) ELSE old

\* if let Some(packet) = receiver.next().await { match packet.unwrap() { ... } }
VersionRecv ==
    /\ UNCHANGED lookup
    /\ new_pc = "version_recv"
    /\ IF pending = <<>>
       THEN /\ new_pc' = "version_send"
            /\ UNCHANGED <<streamVars, server_info, new_result>>
       ELSE LET item == Head(pending) IN
            /\ pending' = Tail(pending)
            /\ received' = Append(received, item)
            /\ IF item.type = "ReadError"
               THEN /\ new_pc' = "done"
                    /\ new_result' = "panic_read_error"
                    /\ UNCHANGED server_info
               ELSE /\ new_pc' = "version_send"
                    /\ server_info' = VersionInfo(item, server_info)
                    /\ UNCHANGED new_result
    /\ UNCHANGED <<channel_info, actor_id, session_id, hs_len, info>>
    /\ UNCHANGED <<endVars, runVars, gateVars, cb, wire, dispatched, calls>>

\* the send of the client's own Version message
VersionSend ==
    /\ UNCHANGED lookup
    /\ new_pc = "version_send"
    /\ \E ok \in BOOLEAN :
         IF ok
         THEN /\ wire' = WriteWhole(wire, "new", "Version")
              /\ new_pc' = "sync"
              /\ UNCHANGED new_result
         ELSE /\ new_pc' = "done"
              /\ new_result' = "Err_Network"
              /\ UNCHANGED wire
    /\ UNCHANGED <<channel_info, server_info, actor_id, session_id, hs_len, info>>
    /\ UNCHANGED <<streamVars, endVars, runVars, gateVars, cb, dispatched, calls>>

IsLoopEnd_Never(item) == FALSE

\* ControlPacket::ServerSync(_) => break
IsLoopEnd(item) == item.type = "ServerSync"

\* channel_info.insert(channel.info.get_channel_id(), Channel { users: Vec::new(), info })
InsertChannel(map, ch) ==
    [c \in DOMAIN map \cup {ch.channel_id} |->
        IF c = ch.channel_id THEN [users |-> <<>>, info |-> ch] ELSE map[c]]

\* channel_info.get_mut(&user.get_channel_id()).expect(..).users.push(*user)
PushUser(map, user) ==
    [map EXCEPT ![user.channel_id].users = Append(@, user)]

\* if user.get_name() == username { actor_id = Some(..); session_id = Some(..) }
IsOwnUser(user) == user.name = Username
CaptureActor_First(user, old) ==
    IF IsOwnUser(user) /\ old = None THEN Some(user.actor) ELSE old

CaptureActor(user, old) == IF IsOwnUser(user) THEN Some(user.actor) ELSE old
CaptureSession(user, old) == IF IsOwnUser(user) THEN Some(user.session) ELSE old

\* one turn of: while let Some(packet) = receiver.next().await { match packet.unwrap() {..} }
BulkSync ==
    /\ UNCHANGED lookup
    /\ new_pc = "sync"
    /\ IF pending = <<>>
       THEN /\ new_pc' = "assemble"
            /\ hs_len' = Some(Len(received))
            /\ UNCHANGED <<streamVars, channel_info, actor_id, session_id, new_result>>
       ELSE LET item == Head(pending) IN
            /\ pending' = Tail(pending)
            /\ received' = Append(received, item)
            /\ CASE item.type = "ReadError" ->
                      /\ new_pc' = "done"
                      /\ new_result' = "panic_read_error"
                      /\ UNCHANGED <<channel_info, actor_id, session_id, hs_len>>
                 [] item.type # "ReadError" /\ IsLoopEnd(item) ->
                      /\ new_pc' = "assemble"
                      /\ hs_len' = Some(Len(received) + 1)
                      /\ UNCHANGED <<channel_info, actor_id, session_id, new_result>>
                 [] item.type = "ChannelState" /\ ~IsLoopEnd(item) ->
                      /\ channel_info' = InsertChannel(channel_info, item)
                      /\ UNCHANGED <<new_pc, actor_id, session_id, hs_len, new_result>>
                 [] item.type = "UserState" /\ ~IsLoopEnd(item) ->
                      /\ actor_id' = CaptureActor(item, actor_id)
                      /\ session_id' = CaptureSession(item, session_id)
                      /\ IF item.channel_id \in DOMAIN channel_info
                         THEN /\ channel_info' = PushUser(channel_info, item)
                              /\ UNCHANGED <<new_pc, new_result>>
                         ELSE /\ new_pc' = "done"
                              /\ new_result' = "panic_invalid_channel"
                              /\ UNCHANGED channel_info
                      /\ UNCHANGED hs_len
                 [] OTHER ->
                      UNCHANGED <<new_pc, channel_info, actor_id, session_id, hs_len, new_result>>
    /\ UNCHANGED <<server_info, info>>
    /\ UNCHANGED <<endVars, runVars, gateVars, cb, wire, dispatched, calls>>

\* ClientInfo { channel_info, server_info, username, actor_id: ..expect(), session_id: ..expect() }
ClientInfo(ci, si, a, s) ==
    [channel_info |-> ci, server_info |-> si, username |-> Username,
     actor_id |-> a, session_id |-> s]

\* the construction of the snapshot and the call of handler.ready(&mut sender, &info)
Assemble ==
    /\ UNCHANGED lookup
    /\ new_pc = "assemble"
    /\ IF actor_id = None \/ session_id = None
       THEN /\ new_pc' = "done"
            /\ new_result' = "panic_no_own_user"
            /\ UNCHANGED <<info, cb, calls>>
       ELSE /\ info' = Some(ClientInfo(channel_info, server_info, actor_id[1], session_id[1]))
            /\ new_pc' = "ready"
            /\ cb' = Callback("ready")
            /\ calls' = [calls EXCEPT !.ready = @ + 1]
            /\ UNCHANGED new_result
    /\ UNCHANGED <<channel_info, server_info, actor_id, session_id, hs_len>>
    /\ UNCHANGED <<streamVars, endVars, runVars, gateVars, wire, dispatched>>

ReadyResult_IgnoresFailure(ok) == "Ok"

\* handler.ready(..).await? : a failure of the callback is the result of Client::new
ReadyResult(ok) == IF ok THEN "Ok" ELSE "Err_Callback"

\* the return of Handler::ready, then Ok(Client { sender: Arc::new(Mutex::new(sender)), .. })
ReadyReturn ==
    /\ UNCHANGED lookup
    /\ new_pc = "ready"
    /\ cb.name = "ready" /\ cb.pc = "body"
    /\ \E ok \in BOOLEAN :
         /\ new_result' = ReadyResult(ok)
         /\ client' = IF new_result' = "Ok" THEN "alive" ELSE client
         /\ calls' = IF ok THEN [calls EXCEPT !.ready_ok = @ + 1]
                          ELSE [calls EXCEPT !.ready_err = @ + 1]
    /\ new_pc' = "done"
    /\ cb' = NoCallback
    /\ UNCHANGED <<channel_info, server_info, actor_id, session_id, hs_len, info>>
    /\ UNCHANGED <<streamVars, runVars, gateVars, wire, dispatched, disconnect_result>>


\* ------------------------------------------------- SenderExt::send_message
\* msg.set_actor(client_info.actor_id); msg.set_session(vec![client_info.session_id]);
\* msg.set_channel_id(vec![channel_id])
TextActor_FromSession(ci) == ci.session_id

TextActor(ci) == ci.actor_id
TextSession(ci) == ci.session_id

\* ClientInfo is Clone with public fields: besides the snapshot it was given, a Handler
\* method can pass send_message a copy whose identity fields it has set itself
EditedInfo(ci) == [ci EXCEPT !.actor_id = 5, !.session_id = 6]
InfoArg(ci, own) == IF own THEN ci ELSE EditedInfo(ci)

\* the gate acquisition under which the callback in progress writes
CbTicket ==
    CASE cb.name = "handle" -> ticket["handle"]
      [] cb.name = "finish" -> ticket["disconnect"]
      [] OTHER -> 0

\* a Handler method calls sender.send_message(message, channel_id, client_info): the
\* send starts (the first part of the frame is written) or fails with Error::Network
SendMessage(args) ==
    /\ UNCHANGED lookup
    /\ cb.name # "none" /\ cb.pc = "body"
    /\ ~cb.sent
    /\ \E ch \in ChanIds, own \in args, ok \in BOOLEAN :
         IF ok
         THEN /\ wire' = WriteHead(wire, cb.name, CbTicket, "TextMessage",
                                   TextActor(InfoArg(info[1], own)),
                                   TextSession(InfoArg(info[1], own)), ch)
              /\ cb' = [cb EXCEPT !.pc = "sending", !.sent = TRUE, !.channel = ch,
                                  !.own = own]
         ELSE /\ cb' = [cb EXCEPT !.sent = TRUE]
              /\ UNCHANGED wire
    /\ UNCHANGED <<hsVars, streamVars, endVars, runVars, gateVars, dispatched, calls>>

\* the Handler method passes the snapshot it was given, as examples/test_bot.rs does
CallbackSend == SendMessage({TRUE})

\* the Handler method passes the snapshot it was given or an edited copy of it
CallbackSendAny == SendMessage(BOOLEAN)

\* the send of the text message completes
CallbackSent ==
    /\ UNCHANGED lookup
    /\ cb.name # "none" /\ cb.pc = "sending"
    /\ wire' = WriteTail(wire, cb.name, CbTicket, "TextMessage",
                         TextActor(InfoArg(info[1], cb.own)),
                         TextSession(InfoArg(info[1], cb.own)), cb.channel)
    /\ cb' = [cb EXCEPT !.pc = "body", !.own = TRUE]
    /\ UNCHANGED <<hsVars, streamVars, endVars, runVars, gateVars, dispatched, calls>>

\* ------------------------------------------------------ the Mutex<Sender>
CanAcquire_NoExclusion(l) == TRUE

\* tokio::sync::Mutex::lock().await completes only while nobody holds the guard
CanAcquire(l) == l = {}

DropGuard_Leaks(l, w) == l

\* the guard goes out of scope
DropGuard(l, w) == l \ {w}

\* acquisitions are numbered as long as the wire history still records frames
NextTicket == IF SteadyFrames(wire) < MaxWire THEN acquired + 1 ELSE acquired

Acquire(w) ==
    /\ CanAcquire(lock)
    /\ lock' = lock \cup {w}
    /\ acquired' = NextTicket
    /\ ticket' = [ticket EXCEPT ![w] = NextTicket]

\* -------------------------------------------------------------- Client::run
\* futures::join!(Self::ping(self.sender.clone()), self.handle()) starts both loops
CallRun ==
    /\ UNCHANGED lookup
    /\ client = "alive" /\ run_pc = "idle"
    /\ run_pc' = "running"
    /\ ping_pc' = "delay"
    /\ handle_pc' = "next"
    /\ UNCHANGED <<run_result, ping_result, handle_result, packet>>
    /\ UNCHANGED <<hsVars, streamVars, endVars, gateVars, cb, wire, dispatched, calls>>

\* delay_for(Duration::from_secs(28)).await elapses
PingTimer ==
    /\ UNCHANGED lookup
    /\ run_pc = "running" /\ ping_pc = "delay"
    /\ ping_pc' = "lock"
    /\ UNCHANGED <<run_pc, run_result, ping_result, handle_pc, handle_result, packet>>
    /\ UNCHANGED <<hsVars, streamVars, endVars, gateVars, cb, wire, dispatched, calls>>

\* let mut lock = sender.lock().await
PingLock ==
    /\ UNCHANGED lookup
    /\ run_pc = "running" /\ ping_pc = "lock"
    /\ Acquire("ping")
    /\ ping_pc' = "send"
    /\ UNCHANGED <<run_pc, run_result, ping_result, handle_pc, handle_result, packet>>
    /\ UNCHANGED <<hsVars, streamVars, endVars, cb, wire, dispatched, calls>>

\* lock.send(ping.into()).await.map_err(Error::Network)? starts or fails
PingSend ==
    /\ UNCHANGED lookup
    /\ run_pc = "running" /\ ping_pc = "send"
    /\ \E ok \in BOOLEAN :
         IF ok
         THEN /\ wire' = WriteHead(wire, "ping", ticket["ping"], "Ping", 0, 0, 0)
              /\ ping_pc' = "flush"
              /\ UNCHANGED <<ping_result, lock>>
         ELSE /\ ping_pc' = "done"
              /\ ping_result' = "Err_Network"
              /\ lock' = DropGuard(lock, "ping")
              /\ UNCHANGED wire
    /\ UNCHANGED <<run_pc, run_result, handle_pc, handle_result, packet, acquired, ticket>>
    /\ UNCHANGED <<hsVars, streamVars, endVars, cb, dispatched, calls>>

\* the send completes, "Ping sent", and the guard is dropped at the end of the loop body
PingSent ==
    /\ UNCHANGED lookup
    /\ run_pc = "running" /\ ping_pc = "flush"
    /\ wire' = WriteTail(wire, "ping", ticket["ping"], "Ping", 0, 0, 0)
    /\ lock' = DropGuard(lock, "ping")
    /\ ping_pc' = "delay"
    /\ UNCHANGED <<run_pc, run_result, ping_result, handle_pc, handle_result, packet>>
    /\ UNCHANGED <<acquired, ticket>>
    /\ UNCHANGED <<hsVars, streamVars, endVars, cb, dispatched, calls>>

AfterRecv_SkipsOther(item) == IF item.type = "Other" THEN "next" ELSE "lock"

\* match packet { _ => () }: every packet goes on to the lock and the callback
AfterRecv(item) == "lock"

OwnProcessing_Resets(ci, item) ==
    IF item.type = "ServerSync" THEN Some([ci[1] EXCEPT !.channel_info = <<>>]) ELSE ci

\* match packet { // DO our own processing  _ => () }: the snapshot stays as it is
OwnProcessing(ci, item) == ci

HandleGuardAfter_Kept(l) == l

\* `lock` of the loop body of handle goes out of scope when the body ends
HandleGuardAfter(l) == DropGuard(l, "handle")

\* while let Some(packet) = self.receiver.next().await { let packet = packet.unwrap(); ..
HandleNext ==
    /\ UNCHANGED lookup
    /\ run_pc = "running" /\ handle_pc = "next"
    /\ IF pending = <<>>
       THEN /\ handle_pc' = "done"
            /\ handle_result' = "Ok"
            /\ UNCHANGED <<streamVars, packet, run_pc, ping_pc, lock, client>>
       ELSE LET item == Head(pending) IN
            /\ pending' = Tail(pending)
            /\ received' = Append(received, item)
            /\ IF item.type = "ReadError"
               THEN \* the unwrap panics: run unwinds and both futures are dropped
                    /\ run_pc' = "panicked"
                    /\ handle_pc' = "panic"
                    /\ ping_pc' = "off"
                    /\ lock' = {}
                    /\ client' = "aborted"
                    /\ UNCHANGED <<packet, handle_result>>
               ELSE /\ packet' = Some(item)
                    /\ handle_pc' = AfterRecv(item)
                    /\ UNCHANGED <<handle_result, run_pc, ping_pc, lock, client>>
    /\ info' = IF pending = <<>> \/ Head(pending).type = "ReadError"
               THEN info
               ELSE OwnProcessing(info, Head(pending))
    /\ UNCHANGED <<run_result, ping_result, acquired, ticket, disconnect_result>>
    /\ UNCHANGED <<new_pc, new_result, channel_info, server_info, actor_id, session_id, hs_len>>
    /\ UNCHANGED <<cb, wire, dispatched, calls>>

\* let mut lock = self.sender.lock().await; self.handler.handle(&mut lock, &packet, &self.info)
HandleLock ==
    /\ UNCHANGED lookup
    /\ run_pc = "running" /\ handle_pc = "lock"
    /\ Acquire("handle")
    /\ handle_pc' = "callback"
    /\ cb' = Callback("handle")
    /\ dispatched' = Append(dispatched, packet[1])
    /\ calls' = [calls EXCEPT !.handle = @ + 1]
    /\ UNCHANGED <<run_pc, run_result, ping_pc, ping_result, handle_result, packet>>
    /\ UNCHANGED <<hsVars, streamVars, endVars, wire>>

\* Handler::handle returns; `?` ends the loop on a failure; the guard is dropped
HandlerReturn ==
    /\ UNCHANGED lookup
    /\ run_pc = "running" /\ handle_pc = "callback"
    /\ cb.name = "handle" /\ cb.pc = "body"
    /\ \E ok \in BOOLEAN :
         IF ok
         THEN handle_pc' = "next" /\ UNCHANGED handle_result
         ELSE handle_pc' = "done" /\ handle_result' = "Err_Callback"
    /\ lock' = HandleGuardAfter(lock)
    /\ cb' = NoCallback
    /\ packet' = None
    /\ calls' = [calls EXCEPT !.handle_ret = @ + 1]
    /\ UNCHANGED <<run_pc, run_result, ping_pc, ping_result, acquired, ticket>>
    /\ UNCHANGED <<hsVars, streamVars, endVars, wire, dispatched>>

\* futures::join! is complete when both futures are
JoinComplete(p, h) == p = "done" /\ h = "done"

\* ping_result?; handle_result?; Ok(())
RunResult(p, h) == IF p # "Ok" THEN p ELSE h

RunReturn ==
    /\ UNCHANGED lookup
    /\ run_pc = "running"
    /\ JoinComplete(ping_pc, handle_pc)
    /\ run_pc' = "returned"
    /\ run_result' = RunResult(ping_result, handle_result)
    /\ UNCHANGED <<ping_pc, ping_result, handle_pc, handle_result, packet>>
    /\ UNCHANGED <<hsVars, streamVars, endVars, gateVars, cb, wire, dispatched, calls>>

\* ------------------------------------------------------- Client::disconnect
\* the caller calls client.disconnect(), which consumes the client
CallDisconnect ==
    /\ UNCHANGED lookup
    /\ client = "alive" /\ run_pc \in {"idle", "returned"}
    /\ client' = "disconnecting"
    /\ UNCHANGED <<disconnect_result, hsVars, streamVars, runVars, gateVars, cb, wire,
                   dispatched, calls>>

\* let mut lock = self.sender.lock().await; self.handler.finish(&mut lock, &self.info)
DisconnectLock ==
    /\ UNCHANGED lookup
    /\ client = "disconnecting" /\ cb.name = "none"
    /\ Acquire("disconnect")
    /\ cb' = Callback("finish")
    /\ calls' = [calls EXCEPT !.finish = @ + 1]
    /\ UNCHANGED <<hsVars, streamVars, endVars, runVars, wire, dispatched>>

\* Handler::finish returns and its result is the result of disconnect
FinishReturn ==
    /\ UNCHANGED lookup
    /\ client = "disconnecting"
    /\ cb.name = "finish" /\ cb.pc = "body"
    /\ \E ok \in BOOLEAN : disconnect_result' = IF ok THEN "Ok" ELSE "Err_Callback"
    /\ client' = "disconnected"
    /\ lock' = DropGuard(lock, "disconnect")
    /\ cb' = NoCallback
    /\ UNCHANGED <<acquired, ticket>>
    /\ UNCHANGED <<hsVars, streamVars, runVars, wire, dispatched, calls>>

\* the caller lets the client go out of scope without disconnect (examples/test_bot.rs)
Drop ==
    /\ UNCHANGED lookup
    /\ client = "alive" /\ run_pc \in {"idle", "returned"}
    /\ client' = "dropped"
    /\ UNCHANGED <<disconnect_result, hsVars, streamVars, runVars, gateVars, cb, wire,
                   dispatched, calls>>

\* ----------------------------------------------- util::get_channel_by_name
LookupNames == {"Root", "Lobby", "Hall"}

Matches_Any(ci, name) == DOMAIN ci.channel_info

\* .values().find(|channel| channel.info.get_name() == name): the channels the
\* predicate accepts
Matches(ci, name) == {c \in DOMAIN ci.channel_info : ci.channel_info[c].info.name = name}

\* a Handler method calls get_channel_by_name(client_info, name), as ready of
\* examples/test_bot.rs does: None, or a clone of the first accepted channel in the
\* iteration order of the HashMap, which is any of them
GetChannelByName ==
    /\ cb.name # "none" /\ cb.pc = "body"
    /\ \E name \in LookupNames :
         IF Matches(info[1], name) = {}
         THEN lookup' = Some([name |-> name, found |-> None])
         ELSE \E c \in Matches(info[1], name) :
                lookup' = Some([name |-> name, found |-> Some(info[1].channel_info[c])])
    /\ UNCHANGED <<hsVars, streamVars, endVars, runVars, gateVars, cb, wire, dispatched,
                   calls>>

\* ---------------------------------------------------------- specifications
Next ==
    \/ Connect
    \/ Authenticate
    \/ VersionRecv
    \/ VersionSend
    \/ BulkSync
    \/ Assemble
    \/ ReadyReturn
    \/ CallbackSend
    \/ CallbackSent
    \/ CallRun
    \/ PingTimer
    \/ PingLock
    \/ PingSend
    \/ PingSent
    \/ HandleNext
    \/ HandleLock
    \/ HandlerReturn
    \/ RunReturn
    \/ CallDisconnect
    \/ DisconnectLock
    \/ FinishReturn
    \/ Drop

Spec == Init /\ [][Next]_vars

\* Client::new with a ready callback that uses the helpers of the crate with any
\* argument: get_channel_by_name and send_message
ApiNext ==
    \/ Connect
    \/ Authenticate
    \/ VersionRecv
    \/ VersionSend
    \/ BulkSync
    \/ Assemble
    \/ ReadyReturn
    \/ CallbackSendAny
    \/ CallbackSent
    \/ GetChannelByName

ApiSpec == Init /\ [][ApiNext]_vars


\* the fairness of the executor: a future that can make progress is polled, the timer
\* fires, a started send completes and a callback in progress returns
Fairness ==
    /\ WF_vars(PingTimer)
    /\ WF_vars(PingLock)
    /\ WF_vars(PingSend)
    /\ WF_vars(PingSent)
    /\ WF_vars(HandleNext)
    /\ WF_vars(HandleLock)
    /\ WF_vars(HandlerReturn)
    /\ WF_vars(CallbackSent)
    /\ WF_vars(RunReturn)

FairSpec == Init /\ [][Next]_vars /\ Fairness

\* ------------------------------------------------------------------ claims
\* the whole inbound stream of the connection
Stream == received \o pending

\* the items the bulk-sync loop of Client::new has taken (the version exchange took
\* the first item of the stream)
Burst == SubSeq(received, 2, IF hs_len = None THEN Len(received) ELSE hs_len[1])

\* the items the receive loop has taken
RunRead == IF hs_len = None THEN <<>> ELSE SubSeq(received, hs_len[1] + 1, Len(received))

IsUser(m) == m.type = "UserState"
IsChannel(m) == m.type = "ChannelState"
UsersIn(c, m) == IsUser(m) /\ m.channel_id = c
UsersOf(b, c) == SelectSeq(b, LAMBDA m : UsersIn(c, m))
Introduced(b, i) == \E j \in 1..(i - 1) : IsChannel(b[j]) /\ b[j].channel_id = b[i].channel_id
WellFormedBurst(b) == \A i \in 1..Len(b) : IsUser(b[i]) => Introduced(b, i)
OrphanUser(b) == \E i \in 1..Len(b) : IsUser(b[i]) /\ ~Introduced(b, i)
NoOwnUser(b) == \A i \in 1..Len(b) : ~(IsUser(b[i]) /\ b[i].name = Username)
EndsWithSync(b) == Len(b) > 0 /\ b[Len(b)].type = "ServerSync"

\* C1: for every burst, ended by a server-sync, in which each user description's
\* channel was introduced by an earlier channel description, Client::new raises no
\* consistency failure and the member list of every channel of the resulting map is
\* the sequence of the burst's user descriptions for that channel, in arrival order.
C1_MembersReflectBurst ==
    (WellFormedBurst(Burst) /\ EndsWithSync(Burst) /\ hs_len # None) =>
        /\ new_result # "panic_invalid_channel"
        /\ \A c \in DOMAIN channel_info : channel_info[c].users = UsersOf(Burst, c)

\* C2: when a user description arrives whose channel id is not a key of the channel
\* map, Client::new returns a HandshakeConsistency error value, no snapshot is
\* produced and the ready callback is never invoked.
C2_ConsistencyErrorReturned ==
    OrphanUser(Burst) =>
        /\ new_result = "Err_HandshakeConsistency"
        /\ info = None
        /\ calls.ready = 0

\* C3: when the bulk-sync loop has ended without a user description of the
\* authenticated username, Client::new returns a HandshakeIncomplete error value, no
\* session is returned and the ready callback is not invoked.
C3_IncompleteErrorReturned ==
    (hs_len # None /\ new_pc # "assemble" /\ NoOwnUser(Burst)) =>
        /\ new_result = "Err_HandshakeIncomplete"
        /\ client = "none"
        /\ calls.ready = 0

SyncAt(s) == {i \in 2..Len(s) : s[i].type = "ServerSync"}
FirstSync(s) == CHOOSE i \in SyncAt(s) : \A j \in SyncAt(s) : i <= j
KnownTypes == {"ServerSync", "ChannelState", "UserState", "ReadError"}

C4_EndsAtFirstSync ==
    /\ (hs_len # None /\ SyncAt(Stream) # {}) => hs_len[1] = FirstSync(Stream)
    /\ (hs_len # None /\ client = "none") => Len(received) = hs_len[1]

C4_UnknownDiscarded ==
    (new_pc = "sync" /\ pending # <<>> /\ Head(pending).type \notin KnownTypes
        /\ received' # received) =>
        /\ new_pc' = "sync"
        /\ new_result' = "none"
        /\ channel_info' = channel_info
        /\ actor_id' = actor_id
        /\ session_id' = session_id

\* C4: the bulk-sync loop stops taking items at the first server-sync of the burst,
\* and a message of an unknown type in the burst is discarded: construction goes on,
\* the channel map and the captured identity stay as they are.
C4_StopsAtServerSync == [](C4_EndsAtFirstSync) /\ [][C4_UnknownDiscarded]_vars

\* a burst with a channel, a user and an unknown message has ended at its server-sync
\* with traffic left behind it
C4_Witness ==
    /\ hs_len # None
    /\ EndsWithSync(Burst)
    /\ \E i \in 1..Len(Burst) : Burst[i].type = "Other"
    /\ \E i \in 1..Len(Burst) : IsUser(Burst[i])
    /\ pending # <<>>
    /\ info # None

SamePart(f, g) ==
    /\ f.by = g.by /\ f.ticket = g.ticket /\ f.kind = g.kind
    /\ f.actor = g.actor /\ f.session = g.session /\ f.channel_id = g.channel_id

\* C5: the keepalive loop and the callback of the receive loop never hold the gate
\* together; every frame is written whole (its second part follows its first) and
\* frames are written in the order in which their writers acquired the gate.
C5_GateExclusive ==
    /\ Cardinality(lock) <= 1
    /\ ping_pc \in {"send", "flush"} => lock = {"ping"}
    /\ cb.name = "handle" => lock = {"handle"}
    /\ \A i \in 1..(Len(wire) - 1) :
         wire[i].part = 1 => (wire[i + 1].part = 2 /\ SamePart(wire[i], wire[i + 1]))
    /\ \A i \in 1..Len(wire) : wire[i].part = 2 =>
         (i > 1 /\ wire[i - 1].part = 1 /\ SamePart(wire[i - 1], wire[i]))
    /\ \A i, j \in 1..Len(wire) : i < j => wire[i].ticket <= wire[j].ticket

\* a keepalive and a callback of the receive loop have both written, and the keepalive
\* loop waits for the gate while the callback holds it
C5_Witness ==
    /\ \E i \in 1..Len(wire) : wire[i].by = "ping"
    /\ \E i \in 1..Len(wire) : wire[i].by = "handle"
    /\ ping_pc = "lock"
    /\ cb.name = "handle"

\* C6: when the receive loop or the keepalive loop has ended, run returns to its
\* caller without waiting for the other loop.
C6_RunReturnsWhenEitherLoopEnds ==
    (run_pc = "running" /\ (handle_pc = "done" \/ ping_pc = "done")) ~> (run_pc = "returned")

\* C7: while the receive loop waits for the next inbound message it does not hold the
\* gate, and a keepalive whose period has elapsed finds the gate free.
C7_WaitHoldsNoGate ==
    (run_pc = "running" /\ handle_pc = "next") =>
        /\ "handle" \notin lock
        /\ ping_pc = "lock" => CanAcquire(lock)

\* the keepalive is being sent while the receive loop, after a first callback, waits
C7_Witness ==
    /\ run_pc = "running"
    /\ handle_pc = "next"
    /\ ping_pc = "flush"
    /\ calls.handle_ret >= 1
    /\ \E i \in 1..Len(wire) : wire[i].by = "ping"

PingFrames == {i \in 1..Len(wire) : wire[i].by = "ping"}

\* C8: ready is invoked at most once, exactly once on a successful handshake, after
\* the snapshot is assembled and before any handle invocation or keepalive send; when
\* ready fails, Client::new returns that failure and there is no session.
C8_ReadyOnceBeforeSteadyState ==
    /\ calls.ready <= 1
    /\ new_result = "Ok" => (calls.ready = 1 /\ calls.ready_ok = 1)
    /\ calls.ready >= 1 => info # None
    /\ calls.ready_ok = 0 =>
         (client = "none" /\ run_pc = "idle" /\ calls.handle = 0 /\ PingFrames = {})
    /\ calls.ready_err >= 1 =>
         (new_result = "Err_Callback" /\ client = "none" /\ run_pc = "idle")

\* after a successful ready a packet has been dispatched and a keepalive sent
C8_Witness ==
    /\ new_result = "Ok"
    /\ calls.ready = 1
    /\ calls.handle >= 1
    /\ PingFrames # {}

\* C9: the packets dispatched to handle are the items the receive loop has taken after
\* the handshake, each once and in arrival order; at most one item is taken and not
\* yet dispatched; at most one handle invocation is in progress; and when the loop
\* ends at the end of the stream every item after the handshake was dispatched.
C9_DispatchInOrder ==
    /\ dispatched = SubSeq(RunRead, 1, Len(dispatched))
    /\ Len(RunRead) - Len(dispatched) \in {0, 1}
    /\ Len(RunRead) # Len(dispatched) => handle_pc \in {"lock", "panic"}
    /\ calls.handle = Len(dispatched)
    /\ calls.handle = calls.handle_ret + (IF cb.name = "handle" THEN 1 ELSE 0)
    /\ handle_result = "Ok" => (pending = <<>> /\ dispatched = RunRead)

\* two different packets were dispatched, one after the other
C9_Witness ==
    /\ Len(dispatched) = 2
    /\ dispatched[1] # dispatched[2]
    /\ calls.handle_ret = 2

\* C10: a session that ran has its finish callback invoked exactly once by the time it
\* is over, whether the caller disconnected or the session ended with its loops.
C10_FinishOnceAtTeardown ==
    (run_pc = "returned" /\ client \in {"dropped", "disconnected"}) => calls.finish = 1

TextFrames == {i \in 1..Len(wire) : wire[i].kind = "TextMessage"}

C12_PingFailureEndsSession ==
    [][ping_result = "Err_Network" => dispatched' = dispatched]_vars

NamedChannels(ci, name) ==
    {c \in DOMAIN ci.channel_info : ci.channel_info[c].info.name = name}

C14_LookupResult ==
    lookup # None =>
        LET name == lookup[1].name
            found == lookup[1].found
        IN  /\ found = None <=> NamedChannels(info[1], name) = {}
            /\ found # None =>
                 /\ found[1].info.name = name
                 /\ \E c \in NamedChannels(info[1], name) : found[1] = info[1].channel_info[c]

C14_LookupReadsOnly == lookup' # lookup => info' = info

\* C14: get_channel_by_name returns a copy of a channel of the snapshot that has the
\* given name when there is one, "not found" exactly when there is none, and leaves
\* the snapshot as it is.
C14_LookupByName == [](C14_LookupResult) /\ [][C14_LookupReadsOnly]_vars

\* a lookup of a name that two channels of the snapshot carry has found one of them
C14_Witness ==
    /\ lookup # None
    /\ lookup[1].found # None
    /\ Cardinality(NamedChannels(info[1], lookup[1].name)) = 2

\* C15: the ready callback is invoked and a session returned only if the bulk-sync
\* loop received a server-sync; a stream that ends before it completes no handshake.
C15_ReadyOnlyAfterSync ==
    (calls.ready >= 1 \/ client # "none") => EndsWithSync(Burst)

OwnUsers(b) == {i \in 1..Len(b) : IsUser(b[i]) /\ b[i].name = Username}
LastOwn(b) == CHOOSE i \in OwnUsers(b) : \A j \in OwnUsers(b) : j <= i

\* C16: after a successful construction the snapshot's session id and actor id are
\* those of the last user description of the burst that carries the authenticated
\* username, never those of a user description with another name.
C16_IdentityFromOwnUser ==
    info # None =>
        /\ OwnUsers(Burst) # {}
        /\ info[1].actor_id = Burst[LastOwn(Burst)].actor
        /\ info[1].session_id = Burst[LastOwn(Burst)].session
        /\ info[1].username = Username

\* the burst described the client's own user twice, with different actor ids
C16_Witness ==
    /\ info # None
    /\ \E i, j \in OwnUsers(Burst) : i < j /\ Burst[i].actor # Burst[j].actor

HandshakeKinds == [i \in 1..Len(SelectSeq(wire, LAMBDA f : f.by = "new" /\ f.part = 1)) |->
                       SelectSeq(wire, LAMBDA f : f.by = "new" /\ f.part = 1)[i].kind]
VersionExchanged == new_pc \notin {"connect", "authenticate", "version_recv", "version_send"}
                    /\ new_result \notin {"Err_Network", "Err_Tls"}
                    /\ (received # <<>> => received[1].type # "ReadError")
StoredVersion(item) == IF item.type = "Version" THEN Some(item) ELSE None

\* C17 (as stated): Client::new sends authenticate, then version, and takes exactly one
\* inbound message between the two: a version record becomes the server metadata, a
\* message of another type is discarded and the metadata stays absent.
C17_ExactlyOneConsumed ==
    /\ new_pc = "version_send" =>
         /\ Len(received) = 1
         /\ server_info = StoredVersion(received[1])
    /\ VersionExchanged => HandshakeKinds = <<"Authenticate", "Version">>

C17_VersionStep ==
    /\ new_pc = "version_send" =>
         /\ Len(received) <= 1
         /\ Len(received) = 0 => (pending = <<>> /\ server_info = None)
         /\ Len(received) = 1 => server_info = StoredVersion(received[1])
         /\ new_result = "none"
         /\ HandshakeKinds = <<"Authenticate">>
    /\ VersionExchanged =>
         /\ HandshakeKinds = <<"Authenticate", "Version">>
         /\ server_info = IF received = <<>> THEN None ELSE StoredVersion(received[1])
    /\ (received # <<>> /\ received[1].type = "ReadError") =>
         /\ new_result = "panic_read_error"
         /\ server_info = None
         /\ HandshakeKinds = <<"Authenticate">>

C17_OtherDiscarded ==
    (new_pc = "version_recv" /\ pending # <<>>
        /\ Head(pending).type \notin {"Version", "ReadError"} /\ received' # received) =>
        /\ new_pc' = "version_send"
        /\ received' = <<Head(pending)>>
        /\ server_info' = None
        /\ new_result' = "none"

\* C17 (amended): Client::new sends authenticate, then version, and takes at most one
\* inbound message between the two, exactly one unless the stream has ended: a version
\* record becomes the server metadata; a message of another type is discarded, and
\* after it or after a stream end the metadata stays absent and construction goes on
\* (a failed read at this point panics before the version send).
C17_AtMostOneConsumed == [](C17_VersionStep) /\ [][C17_OtherDiscarded]_vars

\* a message that is no version record was taken in the version exchange, and
\* construction went on to a snapshot without server metadata
C17_Witness ==
    /\ info # None
    /\ received[1].type = "Other"
    /\ info[1].server_info = None
    /\ HandshakeKinds = <<"Authenticate", "Version">>

\* C18: the gate is released after every use, failed or not: a loop that has ended or
\* waits holds no guard, whoever holds the guard is still at work, and disconnect
\* releases it when finish has returned.
C18_GateReleased ==
    /\ ping_pc \in {"done", "delay", "lock", "off"} => "ping" \notin lock
    /\ handle_pc \in {"done", "next", "lock", "panic"} => "handle" \notin lock
    /\ client \in {"disconnected", "dropped", "aborted"} => lock = {}
    /\ run_pc = "returned" => lock \subseteq {"disconnect"}
    /\ "ping" \in lock => ping_pc \in {"send", "flush"}
    /\ "handle" \in lock => (handle_pc = "callback" /\ cb.name = "handle")
    /\ "disconnect" \in lock => (client = "disconnecting" /\ cb.name = "finish")

\* after a failed keepalive send and a failed handle callback, disconnect has acquired
\* the gate and finish runs
C18_Witness ==
    /\ ping_result = "Err_Network"
    /\ handle_result = "Err_Callback"
    /\ lock = {"disconnect"}
    /\ cb.name = "finish"

\* C19: a failed read during run ends the receive loop and run with a transport error
\* value; the program is not aborted and the failing item is not dispatched.
C19_ReadFailureIsErrorValue ==
    (RunRead # <<>> /\ RunRead[Len(RunRead)].type = "ReadError") =>
        /\ run_pc # "panicked"
        /\ client # "aborted"
        /\ handle_pc = "done"
        /\ handle_result = "Err_Network"
        /\ Len(dispatched) < Len(RunRead)

WrittenBy(w) == Len(SelectSeq(wire, LAMBDA f : f.by = w))

C20_HeldDuringCallback ==
    cb.name = "handle" =>
        /\ handle_pc = "callback"
        /\ lock = {"handle"}
        /\ ping_pc \notin {"send", "flush"}

C20_NoPingDuringCallback ==
    (cb.name = "handle") =>
        /\ WrittenBy("ping")' = WrittenBy("ping")
        /\ (ping_pc = "lock" /\ cb'.name = "handle") => ping_pc' = "lock"

\* C20: the receive loop holds the gate from the start to the return of each handle
\* callback, whether or not the callback sends: no keepalive is written meanwhile, and
\* a keepalive whose period elapses meanwhile waits until the callback has returned.
C20_CallbackHoldsGate == [](C20_HeldDuringCallback) /\ [][C20_NoPingDuringCallback]_vars

\* a handle callback that has sent nothing is running while a keepalive is due
C20_Witness ==
    /\ cb.name = "handle"
    /\ cb.pc = "body"
    /\ ~cb.sent
    /\ ping_pc = "lock"
    /\ WrittenBy("handle") = 0

=============================================================================
